---------------------------- MODULE Spec2Model ----------------------------
(***************************************************************************)
(* Globepay connector transformers                                         *)
(* (crates/router/src/connector/globepay/transformers.rs).                 *)
(*                                                                         *)
(* The transformers are pure conversions.  One behaviour of the model is   *)
(* one call through the connector: a request record is converted into the *)
(* gateway request, or a gateway response is decoded (serde) and then      *)
(* converted (try_from) into the orchestrator's router data.               *)
(*                                                                         *)
(* Strings whose spelling matters (enum variant names, their wire names,   *)
(* error codes, ids) are sequences of one-character strings; Option<T> is  *)
(* a sequence of length 0 or 1; Result<T, E> is a record tagged by `ok`.   *)
(***************************************************************************)
EXTENDS Integers, Sequences, FiniteSets, TLC

VARIABLES pc, flow, wire, item, result

vars == <<pc, flow, wire, item, result>>

---------------------------------------------------------------------------
(* Bounds of the model. *)

MaxIdLen == 2

MaxAmount == 2

---------------------------------------------------------------------------
(* Option and Result. *)

None == <<>>

Some(x) == <<x>>

Ok(v) == [ok |-> TRUE, val |-> v]

Err(e) == [ok |-> FALSE, err |-> e]

\* Option::ok_or
ok_or(opt, e) == IF opt # None THEN Ok(opt[1]) ELSE Err(e)

---------------------------------------------------------------------------
(* Characters. *)

Upper ==
  [a |-> "A", b |-> "B", c |-> "C", d |-> "D", e |-> "E", f |-> "F",
   g |-> "G", h |-> "H", i |-> "I", j |-> "J", k |-> "K", l |-> "L",
   m |-> "M", n |-> "N", o |-> "O", p |-> "P", q |-> "Q", r |-> "R",
   s |-> "S", t |-> "T", u |-> "U", v |-> "V", w |-> "W", x |-> "X",
   y |-> "Y", z |-> "Z"]

UpperCaseLetters == {Upper[c] : c \in DOMAIN Upper}

is_uppercase(ch) == ch \in UpperCaseLetters

to_ascii_uppercase(ch) == IF ch \in DOMAIN Upper THEN Upper[ch] ELSE ch

\* The identifier of every enum variant of the file, spelled out.
Ident ==
  [Success |-> <<"S","u","c","c","e","s","s">>,
   Exists |-> <<"E","x","i","s","t","s">>,
   OrderNotExist |-> <<"O","r","d","e","r","N","o","t","E","x","i","s","t">>,
   OrderMismatch |-> <<"O","r","d","e","r","M","i","s","m","a","t","c","h">>,
   Systemerror |-> <<"S","y","s","t","e","m","e","r","r","o","r">>,
   InvalidShortId |-> <<"I","n","v","a","l","i","d","S","h","o","r","t","I","d">>,
   SignTimeout |-> <<"S","i","g","n","T","i","m","e","o","u","t">>,
   InvalidSign |-> <<"I","n","v","a","l","i","d","S","i","g","n">>,
   ParamInvalid |-> <<"P","a","r","a","m","I","n","v","a","l","i","d">>,
   NotPermitted |-> <<"N","o","t","P","e","r","m","i","t","t","e","d">>,
   InvalidChannel |-> <<"I","n","v","a","l","i","d","C","h","a","n","n","e","l">>,
   DuplicateOrderId |-> <<"D","u","p","l","i","c","a","t","e","O","r","d","e","r","I","d">>,
   Paying |-> <<"P","a","y","i","n","g">>,
   CreateFail |-> <<"C","r","e","a","t","e","F","a","i","l">>,
   Closed |-> <<"C","l","o","s","e","d">>,
   PayFail |-> <<"P","a","y","F","a","i","l">>,
   PaySuccess |-> <<"P","a","y","S","u","c","c","e","s","s">>,
   Succeeded |-> <<"S","u","c","c","e","e","d","e","d">>,
   Failed |-> <<"F","a","i","l","e","d">>,
   Processing |-> <<"P","r","o","c","e","s","s","i","n","g">>]

---------------------------------------------------------------------------
(* The gateway's enums. *)

GlobepayPaymentStatus == {"Success", "Exists"}

GlobepayReturnCode ==
  {"Success", "OrderNotExist", "OrderMismatch", "Systemerror",
   "InvalidShortId", "SignTimeout", "InvalidSign", "ParamInvalid",
   "NotPermitted", "InvalidChannel", "DuplicateOrderId"}

GlobepayPaymentPsyncStatus ==
  {"Paying", "CreateFail", "Closed", "PayFail", "PaySuccess"}

RefundStatus == {"Succeeded", "Failed", "Processing"}

\* #[default] of RefundStatus
RefundStatusDefault == "Processing"

GlobepayChannel == {"Alipay", "Wechat"}

---------------------------------------------------------------------------
(* serde: the wire name of a variant and the decoding of a wire name. *)

RECURSIVE SnakeFrom(_, _)
\* rename_all = "SCREAMING_SNAKE_CASE" on a variant identifier: an underscore
\* before every upper-case character but the first, every character upper-cased.
SnakeFrom(name, i) ==
  IF i > Len(name) THEN <<>>
  ELSE (IF i > 1 /\ is_uppercase(name[i]) THEN <<"_">> ELSE <<>>)
         \o <<to_ascii_uppercase(name[i])>>
         \o SnakeFrom(name, i + 1)

ScreamingSnakeCase(name) == SnakeFrom(name, 1)

\* No rename attribute: the wire name is the identifier.
NoRename(name) == name

\* Wire names of the four deserialized enums.
PaymentStatusWire(v) == ScreamingSnakeCase(Ident[v])

ReturnCodeWire(v) == ScreamingSnakeCase(Ident[v])

PsyncStatusWire(v) == ScreamingSnakeCase(Ident[v])

RefundStatusWire(v) == NoRename(Ident[v])

UnknownVariant == [kind |-> "DeserializeError", arg |-> "unknown variant"]

MissingField == [kind |-> "DeserializeError", arg |-> "missing field"]

\* derive(Deserialize) of the enums: the variant whose wire name is w, else an
\* error; there is no #[serde(other)] variant.
DeserializePaymentStatus(w) ==
  IF \E v \in GlobepayPaymentStatus : PaymentStatusWire(v) = w
  THEN Ok(CHOOSE v \in GlobepayPaymentStatus : PaymentStatusWire(v) = w)
  ELSE Err(UnknownVariant)

DeserializeReturnCode(w) ==
  IF \E v \in GlobepayReturnCode : ReturnCodeWire(v) = w
  THEN Ok(CHOOSE v \in GlobepayReturnCode : ReturnCodeWire(v) = w)
  ELSE Err(UnknownVariant)

DeserializePsyncStatus(w) ==
  IF \E v \in GlobepayPaymentPsyncStatus : PsyncStatusWire(v) = w
  THEN Ok(CHOOSE v \in GlobepayPaymentPsyncStatus : PsyncStatusWire(v) = w)
  ELSE Err(UnknownVariant)

\* Variant: a tag of no variant decodes to the default variant, as with a
\* #[serde(other)] catch-all.
DeserializeRefundStatus_OtherIsDefault(w) ==
  IF \E v \in RefundStatus : RefundStatusWire(v) = w
  THEN Ok(CHOOSE v \in RefundStatus : RefundStatusWire(v) = w)
  ELSE Ok(RefundStatusDefault)

DeserializeRefundStatus(w) ==
  IF \E v \in RefundStatus : RefundStatusWire(v) = w
  THEN Ok(CHOOSE v \in RefundStatus : RefundStatusWire(v) = w)
  ELSE Err(UnknownVariant)

\* strum::Display of GlobepayReturnCode, with no serialize_all attribute: the
\* variant's identifier.
ReturnCodeToString(v) == Ident[v]


---------------------------------------------------------------------------
(* errors::ConnectorError values the transformers raise. *)

NotImplemented(what) == [kind |-> "NotImplemented", arg |-> what]

MissingRequiredField(field_name) ==
  [kind |-> "MissingRequiredField", arg |-> field_name]

FailedToObtainAuthType == [kind |-> "FailedToObtainAuthType", arg |-> ""]

ResponseHandlingFailed == [kind |-> "ResponseHandlingFailed", arg |-> ""]

---------------------------------------------------------------------------
(* Requests. *)

\* Variant: a wallet that is neither AliPay nor WeChatPay is sent on the
\* Wechat channel.
GlobepayPaymentsRequestTryFrom_OtherWalletsWechat(it) ==
  LET pmd == it.request.payment_method_data
      channel ==
        IF pmd.kind = "Wallet"
        THEN IF pmd.wallet = "AliPay" THEN Ok("Alipay") ELSE Ok("Wechat")
        ELSE Err(NotImplemented("Payment method"))
  IN  IF ~channel.ok THEN Err(channel.err)
      ELSE LET description ==
                 ok_or(it.description, MissingRequiredField("description"))
           IN  IF ~description.ok THEN Err(description.err)
               ELSE Ok([price |-> it.request.amount,
                        description |-> description.val,
                        currency |-> it.request.currency,
                        channel |-> channel.val])

\* Variant: the description is resolved before the channel.
GlobepayPaymentsRequestTryFrom_DescriptionFirst(it) ==
  LET pmd == it.request.payment_method_data
      description == ok_or(it.description, MissingRequiredField("description"))
      channel ==
        IF pmd.kind = "Wallet"
        THEN IF pmd.wallet = "AliPay" THEN Ok("Alipay")
             ELSE IF pmd.wallet = "WeChatPay" THEN Ok("Wechat")
             ELSE Err(NotImplemented("Payment method"))
        ELSE Err(NotImplemented("Payment method"))
  IN  IF ~description.ok THEN Err(description.err)
      ELSE IF ~channel.ok THEN Err(channel.err)
      ELSE Ok([price |-> it.request.amount,
               description |-> description.val,
               currency |-> it.request.currency,
               channel |-> channel.val])

\* Variant: the two channels are exchanged.
GlobepayPaymentsRequestTryFrom_ChannelsSwapped(it) ==
  LET pmd == it.request.payment_method_data
      channel ==
        IF pmd.kind = "Wallet"
        THEN IF pmd.wallet = "AliPay" THEN Ok("Wechat")
             ELSE IF pmd.wallet = "WeChatPay" THEN Ok("Alipay")
             ELSE Err(NotImplemented("Payment method"))
        ELSE Err(NotImplemented("Payment method"))
  IN  IF ~channel.ok THEN Err(channel.err)
      ELSE LET description ==
                 ok_or(it.description, MissingRequiredField("description"))
           IN  IF ~description.ok THEN Err(description.err)
               ELSE Ok([price |-> it.request.amount,
                        description |-> description.val,
                        currency |-> it.request.currency,
                        channel |-> channel.val])

\* TryFrom<&PaymentsAuthorizeRouterData> for GlobepayPaymentsRequest
GlobepayPaymentsRequestTryFrom(it) ==
  LET pmd == it.request.payment_method_data
      channel ==
        IF pmd.kind = "Wallet"
        THEN IF pmd.wallet = "AliPay" THEN Ok("Alipay")
             ELSE IF pmd.wallet = "WeChatPay" THEN Ok("Wechat")
             ELSE Err(NotImplemented("Payment method"))
        ELSE Err(NotImplemented("Payment method"))
  IN  IF ~channel.ok THEN Err(channel.err)
      ELSE LET description ==
                 ok_or(it.description, MissingRequiredField("description"))
           IN  IF ~description.ok THEN Err(description.err)
               ELSE Ok([price |-> it.request.amount,
                        description |-> description.val,
                        currency |-> it.request.currency,
                        channel |-> channel.val])

\* masking::Secret::new
Secret(x) == [secret |-> x]

\* TryFrom<&ConnectorAuthType> for GlobepayAuthType
GlobepayAuthTypeTryFrom(auth_type) ==
  IF auth_type.kind = "BodyKey"
  THEN Ok([partner_code |-> Secret(auth_type.api_key),
           credential_code |-> Secret(auth_type.key1)])
  ELSE Err(FailedToObtainAuthType)

\* TryFrom<&RefundsRouterData<F>> for GlobepayRefundRequest
GlobepayRefundRequestTryFrom(it) == Ok([amount |-> it.request.refund_amount])

---------------------------------------------------------------------------
(* Status mappings. *)

\* Variant: a created payment counts as charged.
AttemptStatusFromPaymentStatus_SuccessCharged(st) ==
  CASE st = "Success" -> "Charged"
    [] st = "Exists" -> "Failure"

\* From<GlobepayPaymentStatus> for enums::AttemptStatus
AttemptStatusFromPaymentStatus(st) ==
  CASE st = "Success" -> "AuthenticationPending"
    [] st = "Exists" -> "Failure"

\* Variant: a closed order counts as still pending.
AttemptStatusFromPsyncStatus_ClosedPending(st) ==
  CASE st = "PaySuccess" -> "Charged"
    [] st \in {"PayFail", "CreateFail"} -> "Failure"
    [] st \in {"Paying", "Closed"} -> "AuthenticationPending"

\* From<GlobepayPaymentPsyncStatus> for enums::AttemptStatus
AttemptStatusFromPsyncStatus(st) ==
  CASE st = "PaySuccess" -> "Charged"
    [] st \in {"PayFail", "CreateFail", "Closed"} -> "Failure"
    [] st = "Paying" -> "AuthenticationPending"

\* From<RefundStatus> for enums::RefundStatus
RefundStatusFrom(st) ==
  CASE st = "Succeeded" -> "Success"
    [] st = "Failed" -> "Failure"
    [] st = "Processing" -> "Pending"

---------------------------------------------------------------------------
(* Payment responses. *)

\* Serialize of url::Url: the URL's serialization as a JSON string.
UrlToJson(u) == [json |-> "String", str |-> u.serialization]

\* Encode::encode_to_value of GlobepayConnectorMetadata: a JSON object with
\* the one key image_data_url; serializing the struct cannot fail.
encode_to_value(metadata) ==
  Ok([json |-> "Object",
      fields |-> [image_data_url |-> UrlToJson(metadata.image_data_url)]])

\* The error response of the non-success branch of both payment parsers.
ErrorResponseOf(it) ==
  [code |-> ReturnCodeToString(it.response.return_code),
   message |-> ReturnCodeToString(it.response.return_code),
   reason |-> it.response.return_msg,
   status_code |-> it.http_code]

TransactionResponse(id, metadata) ==
  [resource_id |-> [ConnectorTransactionId |-> id],
   redirection_data |-> None,
   mandate_reference |-> None,
   connector_metadata |-> metadata,
   network_txn_id |-> None]

\* Variant: the QR URL is required before the return code is examined.
PaymentsResponseTryFrom_FieldsFirst(it) ==
  LET qr == ok_or(it.response.qrcode_img, ResponseHandlingFailed)
  IN  IF ~qr.ok THEN Err(qr.err)
      ELSE IF it.response.return_code = "Success"
      THEN
        LET connector_metadata ==
              Some(encode_to_value([image_data_url |-> qr.val]).val)
            globepay_status ==
              ok_or(it.response.result_code, ResponseHandlingFailed)
            order_id == ok_or(it.response.order_id, ResponseHandlingFailed)
        IN  IF ~globepay_status.ok THEN Err(globepay_status.err)
            ELSE IF ~order_id.ok THEN Err(order_id.err)
            ELSE Ok([it.data EXCEPT
                       !.status =
                         AttemptStatusFromPaymentStatus(globepay_status.val),
                       !.response =
                         Ok(TransactionResponse(order_id.val,
                                                connector_metadata))])
      ELSE Ok([it.data EXCEPT
                 !.status = "Failure",
                 !.response = Err(ErrorResponseOf(it))])

\* Variant: an absent order id becomes the empty transaction id.
PaymentsResponseTryFrom_DefaultOrderId(it) ==
  IF it.response.return_code = "Success"
  THEN LET qr == ok_or(it.response.qrcode_img, ResponseHandlingFailed)
           globepay_status ==
             ok_or(it.response.result_code, ResponseHandlingFailed)
           order_id ==
             IF it.response.order_id = None THEN <<>>
             ELSE it.response.order_id[1]
       IN  IF ~qr.ok THEN Err(qr.err)
           ELSE IF ~globepay_status.ok THEN Err(globepay_status.err)
           ELSE Ok([it.data EXCEPT
                      !.status =
                        AttemptStatusFromPaymentStatus(globepay_status.val),
                      !.response =
                        Ok(TransactionResponse(
                             order_id,
                             Some(encode_to_value(
                                    [image_data_url |-> qr.val]).val)))])
  ELSE Ok([it.data EXCEPT
             !.status = "Failure",
             !.response = Err(ErrorResponseOf(it))])

\* TryFrom<ResponseRouterData<F, GlobepayPaymentsResponse, T, PaymentsResponseData>>
PaymentsResponseTryFrom(it) ==
  IF it.response.return_code = "Success"
  THEN LET qr == ok_or(it.response.qrcode_img, ResponseHandlingFailed)
       IN  IF ~qr.ok THEN Err(qr.err)
           ELSE
       LET globepay_metadata == [image_data_url |-> qr.val]
           encoded == encode_to_value(globepay_metadata)
       IN  IF ~encoded.ok THEN Err(ResponseHandlingFailed)
           ELSE
       LET connector_metadata == Some(encoded.val)
           globepay_status ==
             ok_or(it.response.result_code, ResponseHandlingFailed)
       IN  IF ~globepay_status.ok THEN Err(globepay_status.err)
           ELSE
       LET order_id == ok_or(it.response.order_id, ResponseHandlingFailed)
       IN  IF ~order_id.ok THEN Err(order_id.err)
           ELSE Ok([it.data EXCEPT
                      !.status =
                        AttemptStatusFromPaymentStatus(globepay_status.val),
                      !.response =
                        Ok(TransactionResponse(order_id.val,
                                               connector_metadata))])
  ELSE Ok([it.data EXCEPT
             !.status = "Failure",
             !.response = Err(ErrorResponseOf(it))])

\* Variant: a sync status that maps to Failure is reported as an error
\* response.
SyncResponseTryFrom_FailureIsError(it) ==
  IF it.response.return_code = "Success"
  THEN LET globepay_status ==
             ok_or(it.response.result_code, ResponseHandlingFailed)
           globepay_id == ok_or(it.response.order_id, ResponseHandlingFailed)
       IN  IF ~globepay_status.ok THEN Err(globepay_status.err)
           ELSE IF ~globepay_id.ok THEN Err(globepay_id.err)
           ELSE IF AttemptStatusFromPsyncStatus(globepay_status.val) = "Failure"
           THEN Ok([it.data EXCEPT
                      !.status = "Failure",
                      !.response = Err(ErrorResponseOf(it))])
           ELSE Ok([it.data EXCEPT
                      !.status =
                        AttemptStatusFromPsyncStatus(globepay_status.val),
                      !.response =
                        Ok(TransactionResponse(globepay_id.val, None))])
  ELSE Ok([it.data EXCEPT
             !.status = "Failure",
             !.response = Err(ErrorResponseOf(it))])

\* TryFrom<ResponseRouterData<F, GlobepaySyncResponse, T, PaymentsResponseData>>
SyncResponseTryFrom(it) ==
  IF it.response.return_code = "Success"
  THEN LET globepay_status ==
             ok_or(it.response.result_code, ResponseHandlingFailed)
       IN  IF ~globepay_status.ok THEN Err(globepay_status.err)
           ELSE
       LET globepay_id == ok_or(it.response.order_id, ResponseHandlingFailed)
       IN  IF ~globepay_id.ok THEN Err(globepay_id.err)
           ELSE Ok([it.data EXCEPT
                      !.status =
                        AttemptStatusFromPsyncStatus(globepay_status.val),
                      !.response =
                        Ok(TransactionResponse(globepay_id.val, None))])
  ELSE Ok([it.data EXCEPT
             !.status = "Failure",
             !.response = Err(ErrorResponseOf(it))])

---------------------------------------------------------------------------
(* Refund responses. *)

RefundsResponseData(it) ==
  [connector_refund_id |-> it.response.id,
   refund_status |-> RefundStatusFrom(it.response.status)]

\* TryFrom<RefundsResponseRouterData<api::Execute, RefundResponse>>
RefundExecuteTryFrom(it) ==
  Ok([it.data EXCEPT !.response = Ok(RefundsResponseData(it))])

\* TryFrom<RefundsResponseRouterData<api::RSync, RefundResponse>>
RefundRSyncTryFrom(it) ==
  Ok([it.data EXCEPT !.response = Ok(RefundsResponseData(it))])

---------------------------------------------------------------------------
(* serde: derive(Deserialize) of the response structs.  An Option field that *)
(* is absent decodes to None; a required field that is absent is an error;  *)
(* an enum field that is present is decoded by the enum's deserializer.     *)

\* GlobepayPaymentsResponse
DeserializePaymentsResponse(body) ==
  LET result_code ==
        IF body.result_code = None THEN Ok(None)
        ELSE LET d == DeserializePaymentStatus(body.result_code[1])
             IN  IF d.ok THEN Ok(Some(d.val)) ELSE d
      return_code ==
        IF body.return_code = None THEN Err(MissingField)
        ELSE DeserializeReturnCode(body.return_code[1])
  IN  IF ~result_code.ok THEN Err(result_code.err)
      ELSE IF ~return_code.ok THEN Err(return_code.err)
      ELSE Ok([result_code |-> result_code.val,
               order_id |-> body.order_id,
               qrcode_img |-> body.qrcode_img,
               return_code |-> return_code.val,
               return_msg |-> body.return_msg])

\* GlobepaySyncResponse
DeserializeSyncResponse(body) ==
  LET result_code ==
        IF body.result_code = None THEN Ok(None)
        ELSE LET d == DeserializePsyncStatus(body.result_code[1])
             IN  IF d.ok THEN Ok(Some(d.val)) ELSE d
      return_code ==
        IF body.return_code = None THEN Err(MissingField)
        ELSE DeserializeReturnCode(body.return_code[1])
  IN  IF ~result_code.ok THEN Err(result_code.err)
      ELSE IF ~return_code.ok THEN Err(return_code.err)
      ELSE Ok([result_code |-> result_code.val,
               order_id |-> body.order_id,
               return_code |-> return_code.val,
               return_msg |-> body.return_msg])

\* RefundResponse: both fields are required; the struct has no
\* #[serde(default)], so the derived Default is not used when decoding.
DeserializeRefundResponse(body) ==
  LET status ==
        IF body.status = None THEN Err(MissingField)
        ELSE DeserializeRefundStatus(body.status[1])
  IN  IF ~status.ok THEN Err(status.err)
      ELSE IF body.id = None THEN Err(MissingField)
      ELSE Ok([id |-> body.id[1], status |-> status.val])

\* derive(Default) of RefundResponse
RefundResponseDefault == [id |-> <<>>, status |-> RefundStatusDefault]

---------------------------------------------------------------------------
(* Inputs. *)

Option(S) == {None} \cup {Some(x) : x \in S}

\* Strings of at most MaxIdLen characters, the empty string included.
Ids == {[i \in 1..n |-> "7"] : n \in 0..MaxIdLen}

Amounts == (0..MaxAmount) \cup {1000, -1}

Currencies == {"CNY", "USD", "GBP"}

Descriptions == {"order-1", ""}

Urls ==
  {[serialization |-> "https://pay.globepay.co/qr/1"],
   [serialization |-> "https://example.com/q.png"]}

ReturnMsgs == {"not found", "system error"}

HttpCodes == {200, 500}

WalletKinds == {"AliPay", "WeChatPay", "GooglePay", "ApplePay", "PaypalRedirect"}

OtherPaymentMethods == {"Card", "BankRedirect", "PayLater"}

PaymentMethodData ==
  {[kind |-> "Wallet", wallet |-> w] : w \in WalletKinds}
    \cup {[kind |-> k, wallet |-> ""] : k \in OtherPaymentMethods}

AuthorizeRouterData ==
  [description : Option(Descriptions),
   request : [amount : Amounts,
              currency : Currencies,
              payment_method_data : PaymentMethodData]]

ConnectorAuthTypes ==
  [kind : {"HeaderKey", "BodyKey", "SignatureKey"},
   api_key : {"partner", "p2"}, key1 : {"credential", ""}]

RefundsRequestData == [request : [refund_amount : Amounts]]

\* What a gateway may send as an enum tag: every wire name, the identifier of
\* a variant as it is written in the source, and a tag of no variant.
ReturnCodeTags ==
  {ReturnCodeWire(v) : v \in GlobepayReturnCode}
    \cup {Ident["OrderNotExist"], <<"F","A","I","L">>}

PaymentStatusTags ==
  {PaymentStatusWire(v) : v \in GlobepayPaymentStatus} \cup {Ident["Success"]}

PsyncStatusTags ==
  {PsyncStatusWire(v) : v \in GlobepayPaymentPsyncStatus}
    \cup {Ident["PaySuccess"]}

RefundStatusTags ==
  {RefundStatusWire(v) : v \in RefundStatus}
    \cup {<<"C","a","n","c","e","l","l","e","d">>,
          ScreamingSnakeCase(Ident["Succeeded"])}

\* The attempt's router data before the response is applied.
PaymentsData ==
  [status : {"Started", "AuthenticationPending"},
   response : {Err([code |-> <<>>, message |-> <<>>, reason |-> None,
                    status_code |-> 500])},
   connector : {"globepay"}]

RefundsData ==
  [response : {Err([code |-> <<>>, message |-> <<>>, reason |-> None,
                    status_code |-> 500])},
   connector : {"globepay"}]

PaymentsWire ==
  [body : [result_code : Option(PaymentStatusTags),
           order_id : Option(Ids),
           qrcode_img : Option(Urls),
           return_code : Option(ReturnCodeTags),
           return_msg : Option(ReturnMsgs)],
   http_code : HttpCodes,
   data : PaymentsData]

SyncWire ==
  [body : [result_code : Option(PsyncStatusTags),
           order_id : Option(Ids),
           return_code : Option(ReturnCodeTags),
           return_msg : Option(ReturnMsgs)],
   http_code : HttpCodes,
   data : PaymentsData]

RefundWire ==
  [body : [id : Option(Ids), status : Option(RefundStatusTags)],
   http_code : HttpCodes,
   data : RefundsData]

---------------------------------------------------------------------------
(* State machine: one call per behaviour. *)

InitRequest(f, inputs) ==
  /\ flow = f
  /\ pc = "call"
  /\ wire = None
  /\ item \in inputs
  /\ result = None

InitResponse(f, wires) ==
  /\ flow = f
  /\ pc = "received"
  /\ wire \in wires
  /\ item = None
  /\ result = None

Init ==
  \/ InitRequest("Authorize", AuthorizeRouterData)
  \/ InitRequest("AuthType", ConnectorAuthTypes)
  \/ InitRequest("RefundRequest", RefundsRequestData)
  \/ InitResponse("PaymentsResponse", PaymentsWire)
  \/ InitResponse("SyncResponse", SyncWire)
  \/ InitResponse("RefundExecute", RefundWire)
  \/ InitResponse("RefundRSync", RefundWire)

\* The response body is decoded into the response struct; a body that does
\* not decode is rejected with the decoding error and never reaches the
\* transformer.
Decode(decoded) ==
  IF decoded.ok
  THEN /\ item' = [response |-> decoded.val,
                   data |-> wire.data,
                   http_code |-> wire.http_code]
       /\ pc' = "call"
       /\ UNCHANGED <<flow, wire, result>>
  ELSE /\ result' = Err(decoded.err)
       /\ pc' = "rejected"
       /\ UNCHANGED <<flow, wire, item>>

DecodePaymentsResponse ==
  /\ pc = "received"
  /\ flow = "PaymentsResponse"
  /\ Decode(DeserializePaymentsResponse(wire.body))

DecodeSyncResponse ==
  /\ pc = "received"
  /\ flow = "SyncResponse"
  /\ Decode(DeserializeSyncResponse(wire.body))

DecodeRefundResponse ==
  /\ pc = "received"
  /\ flow \in {"RefundExecute", "RefundRSync"}
  /\ Decode(DeserializeRefundResponse(wire.body))

\* The transformer's result is returned to the caller.
Return(r) ==
  /\ result' = r
  /\ pc' = "done"
  /\ UNCHANGED <<flow, wire, item>>

BuildAuthorizeRequest ==
  /\ pc = "call"
  /\ flow = "Authorize"
  /\ Return(GlobepayPaymentsRequestTryFrom(item))

BuildAuthType ==
  /\ pc = "call"
  /\ flow = "AuthType"
  /\ Return(GlobepayAuthTypeTryFrom(item))

BuildRefundRequest ==
  /\ pc = "call"
  /\ flow = "RefundRequest"
  /\ Return(GlobepayRefundRequestTryFrom(item))

ParsePaymentsResponse ==
  /\ pc = "call"
  /\ flow = "PaymentsResponse"
  /\ Return(PaymentsResponseTryFrom(item))

ParseSyncResponse ==
  /\ pc = "call"
  /\ flow = "SyncResponse"
  /\ Return(SyncResponseTryFrom(item))

ParseRefundExecute ==
  /\ pc = "call"
  /\ flow = "RefundExecute"
  /\ Return(RefundExecuteTryFrom(item))

ParseRefundRSync ==
  /\ pc = "call"
  /\ flow = "RefundRSync"
  /\ Return(RefundRSyncTryFrom(item))

Next ==
  \/ BuildAuthorizeRequest
  \/ BuildAuthType
  \/ BuildRefundRequest
  \/ DecodePaymentsResponse
  \/ DecodeSyncResponse
  \/ DecodeRefundResponse
  \/ ParsePaymentsResponse
  \/ ParseSyncResponse
  \/ ParseRefundExecute
  \/ ParseRefundRSync

Spec == Init /\ [][Next]_vars

---------------------------------------------------------------------------
(* Properties. *)

\* The payment-response transformer named by f has returned.
Parsed(f) == pc = "done" /\ flow = f

PaymentParsed == pc = "done" /\ flow \in {"PaymentsResponse", "SyncResponse"}

\* C1: for every return code other than Success, the authorize and the sync
\* parser return Ok with status Failure and an error response whose code and
\* message are the return code's string rendering, whose reason is return_msg
\* and whose status_code is the http_code, whatever result_code, order_id and
\* qrcode_img are.
C1_NonSuccessIsFailure ==
  (PaymentParsed /\ item.response.return_code # "Success") =>
    /\ result.ok
    /\ result.val.status = "Failure"
    /\ ~result.val.response.ok
    /\ result.val.response.err.code = Ident[item.response.return_code]
    /\ result.val.response.err.message = Ident[item.response.return_code]
    /\ result.val.response.err.reason = item.response.return_msg
    /\ result.val.response.err.status_code = item.http_code

\* An authorize response InvalidSign that still carries a result code and a QR
\* URL but no order id.
C1_Witness ==
  /\ Parsed("PaymentsResponse")
  /\ item.response.return_code = "InvalidSign"
  /\ item.response.result_code = Some("Success")
  /\ item.response.qrcode_img # None
  /\ item.response.order_id = None
  /\ result.ok
  /\ result.val.status = "Failure"
  /\ result.val.response.err.code = Ident["InvalidSign"]

\* C2: the error code of a non-success return code is the upper-snake-case
\* name the gateway sent on the wire for it.
C2_ErrorCodeIsWireName ==
  (PaymentParsed /\ item.response.return_code # "Success") =>
    /\ result.ok
    /\ ~result.val.response.ok
    /\ result.val.response.err.code = wire.body.return_code[1]

\* C3: an authorize response with return code Success fails with
\* ResponseHandlingFailed, and returns nothing else, exactly when order_id,
\* result_code or qrcode_img is absent.
C3_SuccessNeedsAllFields ==
  (Parsed("PaymentsResponse") /\ item.response.return_code = "Success") =>
    IF \/ item.response.order_id = None
       \/ item.response.result_code = None
       \/ item.response.qrcode_img = None
    THEN result = Err(ResponseHandlingFailed)
    ELSE result.ok

\* Only the order id is missing.
C3_Witness ==
  /\ Parsed("PaymentsResponse")
  /\ item.response.return_code = "Success"
  /\ item.response.order_id = None
  /\ item.response.result_code # None
  /\ item.response.qrcode_img # None
  /\ result = Err(ResponseHandlingFailed)

\* C4: an authorize response with return code Success, result code Success,
\* an order id and a QR URL gives AuthenticationPending, the order id as
\* transaction id, the QR URL in the connector metadata, and nothing else.
C4_SuccessIsAuthenticationPending ==
  (/\ Parsed("PaymentsResponse")
   /\ item.response.return_code = "Success"
   /\ item.response.result_code = Some("Success")
   /\ item.response.order_id # None
   /\ item.response.qrcode_img # None) =>
    /\ result.ok
    /\ result.val.status = "AuthenticationPending"
    /\ result.val.response.ok
    /\ result.val.response.val.resource_id =
         [ConnectorTransactionId |-> item.response.order_id[1]]
    /\ result.val.response.val.connector_metadata # None
    /\ result.val.response.val.connector_metadata[1].fields.image_data_url =
         [json |-> "String",
          str |-> item.response.qrcode_img[1].serialization]
    /\ result.val.response.val.redirection_data = None
    /\ result.val.response.val.mandate_reference = None
    /\ result.val.response.val.network_txn_id = None

C4_Witness ==
  /\ Parsed("PaymentsResponse")
  /\ item.response.return_code = "Success"
  /\ item.response.result_code = Some("Success")
  /\ item.response.order_id = Some(<<"7", "7">>)
  /\ item.response.qrcode_img =
       Some([serialization |-> "https://pay.globepay.co/qr/1"])
  /\ result.ok
  /\ result.val.status = "AuthenticationPending"
  /\ result.val.response.val.resource_id.ConnectorTransactionId = <<"7", "7">>

\* The attempt carries one of the two wallets the connector supports.
SupportedWallet(pmd) ==
  pmd.kind = "Wallet" /\ pmd.wallet \in {"AliPay", "WeChatPay"}

\* The name of the payment method the attempt carries.
OffendingMethod(pmd) == IF pmd.kind = "Wallet" THEN pmd.wallet ELSE pmd.kind

\* C5 as stated: a non-wallet payment method or an unsupported wallet always
\* fails with the unsupported-payment-method error (NotImplemented in the
\* code), and the error names the offending payment method.
C5_ErrorNamesOffendingMethod ==
  (Parsed("Authorize") /\ ~SupportedWallet(item.request.payment_method_data)) =>
    /\ ~result.ok
    /\ result.err.kind = "NotImplemented"
    /\ result.err.arg = OffendingMethod(item.request.payment_method_data)

\* C5 amended: a non-wallet payment method or an unsupported wallet always
\* fails with NotImplemented carrying the fixed text "Payment method",
\* whatever the method and whether or not a description is present.
C5_UnsupportedMethodFails ==
  (Parsed("Authorize") /\ ~SupportedWallet(item.request.payment_method_data)) =>
    result = Err([kind |-> "NotImplemented", arg |-> "Payment method"])

\* An unsupported wallet, with a description present.
C5_Witness ==
  /\ Parsed("Authorize")
  /\ item.request.payment_method_data = [kind |-> "Wallet", wallet |-> "GooglePay"]
  /\ item.description = Some("order-1")
  /\ ~result.ok
  /\ result.err.kind = "NotImplemented"

\* C6 as stated: an absent description always fails with
\* MissingRequiredField(description), for every payment method.
C6_AbsentDescriptionAlwaysMissingField ==
  (Parsed("Authorize") /\ item.description = None) =>
    result = Err([kind |-> "MissingRequiredField", arg |-> "description"])

\* C6 amended: an absent description always fails; with MissingRequiredField
\* (description) when the payment method is a supported wallet, and with
\* NotImplemented otherwise, because the payment method is examined first.
C6_AbsentDescriptionFails ==
  (Parsed("Authorize") /\ item.description = None) =>
    IF SupportedWallet(item.request.payment_method_data)
    THEN result = Err([kind |-> "MissingRequiredField", arg |-> "description"])
    ELSE result = Err([kind |-> "NotImplemented", arg |-> "Payment method"])

C6_Witness ==
  /\ Parsed("Authorize")
  /\ item.description = None
  /\ item.request.payment_method_data = [kind |-> "Wallet", wallet |-> "WeChatPay"]
  /\ result = Err([kind |-> "MissingRequiredField", arg |-> "description"])

\* C7: with a supported wallet and a description present the request is
\* built: price is the amount, currency the currency, description the
\* description, channel Alipay for AliPay and Wechat for WeChatPay.
C7_SupportedWalletBuildsRequest ==
  (/\ Parsed("Authorize")
   /\ SupportedWallet(item.request.payment_method_data)
   /\ item.description # None) =>
    result =
      Ok([price |-> item.request.amount,
          description |-> item.description[1],
          currency |-> item.request.currency,
          channel |-> IF item.request.payment_method_data.wallet = "AliPay"
                      THEN "Alipay" ELSE "Wechat"])

\* amount 1000, CNY, "order-1", AliPay
C7_Witness ==
  /\ Parsed("Authorize")
  /\ item = [description |-> Some("order-1"),
             request |-> [amount |-> 1000, currency |-> "CNY",
                          payment_method_data |->
                            [kind |-> "Wallet", wallet |-> "AliPay"]]]
  /\ result = Ok([price |-> 1000, description |-> "order-1",
                  currency |-> "CNY", channel |-> "Alipay"])

\* C8: a sync response with return code Success and result_code and order_id
\* present gives Charged for PaySuccess, Failure for PayFail, CreateFail and
\* Closed, AuthenticationPending for Paying, the order id as transaction id
\* and no connector metadata; with result_code or order_id absent it fails
\* with ResponseHandlingFailed.
C8_SyncStatusMapping ==
  (Parsed("SyncResponse") /\ item.response.return_code = "Success") =>
    IF item.response.result_code = None \/ item.response.order_id = None
    THEN result = Err(ResponseHandlingFailed)
    ELSE /\ result.ok
         /\ result.val.status =
              (CASE item.response.result_code[1] = "PaySuccess" -> "Charged"
                 [] item.response.result_code[1] = "PayFail" -> "Failure"
                 [] item.response.result_code[1] = "CreateFail" -> "Failure"
                 [] item.response.result_code[1] = "Closed" -> "Failure"
                 [] item.response.result_code[1] = "Paying" ->
                      "AuthenticationPending")
         /\ result.val.response.ok
         /\ result.val.response.val.resource_id =
              [ConnectorTransactionId |-> item.response.order_id[1]]
         /\ result.val.response.val.connector_metadata = None

C8_Witness ==
  /\ Parsed("SyncResponse")
  /\ item.response.return_code = "Success"
  /\ item.response.result_code = Some("PaySuccess")
  /\ item.response.order_id = Some(<<"7">>)
  /\ result.ok
  /\ result.val.status = "Charged"

RefundFlow == flow \in {"RefundExecute", "RefundRSync"}

C10_ErrorResponseIffNotSuccess ==
  (PaymentParsed /\ result.ok) =>
    /\ ~result.val.response.ok <=> item.response.return_code # "Success"
    /\ (/\ item.response.return_code = "Success"
        /\ item.response.result_code \in
             {Some("Exists"), Some("PayFail"), Some("CreateFail"),
              Some("Closed")}) =>
         /\ result.val.status = "Failure"
         /\ result.val.response.ok
         /\ result.val.response.val.resource_id =
              [ConnectorTransactionId |-> item.response.order_id[1]]
         /\ flow = "PaymentsResponse" =>
              /\ result.val.response.val.connector_metadata # None
              /\ result.val.response.val.connector_metadata[1].fields
                   .image_data_url.str =
                   item.response.qrcode_img[1].serialization

\* An authorize response Success / Exists.
C10_Witness ==
  /\ Parsed("PaymentsResponse")
  /\ item.response.return_code = "Success"
  /\ item.response.result_code = Some("Exists")
  /\ result.ok
  /\ result.val.status = "Failure"
  /\ result.val.response.ok

============================================================================
